---- MODULE Spec2Model ----
(***************************************************************************)
(* Model of tidegates/toolbox.py: the StandardScenarios / Flooder scenario *)
(* engine (scenario generation, per-scenario analysis, aggregation of the  *)
(* per-scenario results and the workspace scope around them).              *)
(*                                                                         *)
(* Python values are modelled as sequences: None is the empty sequence, a  *)
(* string is the sequence of its tokens (a path or a numeric text is the   *)
(* sequence of its characters or name parts), a number n is <<n>>.         *)
(* Floats are kept as integers in hundredths of a foot; the table values   *)
(* 4.0, 8.0, 9.6, 10.5 and the sums with 0..6 are exact at that scale.     *)
(***************************************************************************)
EXTENDS Integers, Sequences, FiniteSets, TLC

VARIABLES pc, params, prior, env, saved, scenarios, idx,
          all_floods, all_wetlands, all_buildings, files, log, call

vars == <<pc, params, prior, env, saved, scenarios, idx,
          all_floods, all_wetlands, all_buildings, files, log, call>>

\* Longest custom elevation list given to a run.
MaxElevs == 2

\* Longest results list given to a direct finish_results call.
MaxResults == 2

None == <<>>

Num(n) == <<n>>

Val(v) == v[1]

Range(s) == {s[i] : i \in 1..Len(s)}

\* dict.get(key, default)
Get(d, key, default) == IF key \in DOMAIN d THEN d[key] ELSE default

(***************************************************************************)
(* Module constants.                                                       *)
(***************************************************************************)
\* numpy.arange(7)
SEALEVELRISE == [i \in 1..7 |-> i - 1]

\* OrderedDict in insertion order; elevations in hundredths of a foot.
SURGES == << [name |-> <<"MHHW">>,  elev |-> 400],
             [name |-> <<"10yr">>,  elev |-> 800],
             [name |-> <<"50yr">>,  elev |-> 960],
             [name |-> <<"100yr">>, elev |-> 1050] >>

\* SURGES[surge]
SurgeElev(surge) == SURGES[CHOOSE i \in 1..Len(SURGES) : SURGES[i].name = surge].elev

(***************************************************************************)
(* float(text), str(float), os.path.splitext.                              *)
(***************************************************************************)
DigitChars == <<"0", "1", "2", "3", "4", "5", "6", "7", "8", "9">>

IsDigit(c) == \E i \in 1..10 : DigitChars[i] = c

DigitVal(c) == (CHOOSE i \in 1..10 : DigitChars[i] = c) - 1

RECURSIVE DigitsVal(_)
DigitsVal(ds) ==
    IF ds = <<>> THEN 0
    ELSE 10 * DigitsVal(SubSeq(ds, 1, Len(ds) - 1)) + DigitVal(ds[Len(ds)])

RECURSIVE IntDigits(_)
IntDigits(n) ==
    IF n < 10 THEN <<DigitChars[n + 1]>>
    ELSE IntDigits(n \div 10) \o <<DigitChars[(n % 10) + 1]>>

\* Index of the first "." of a text, 0 when there is none.
FirstDot(t) ==
    IF \E i \in 1..Len(t) : t[i] = "."
    THEN CHOOSE i \in 1..Len(t) : t[i] = "." /\ \A j \in 1..(i - 1) : t[j] # "."
    ELSE 0

WholePart(t) == IF FirstDot(t) = 0 THEN t ELSE SubSeq(t, 1, FirstDot(t) - 1)

FracPart(t) == IF FirstDot(t) = 0 THEN <<>> ELSE SubSeq(t, FirstDot(t) + 1, Len(t))

\* float(text) raises ValueError unless the text is a decimal numeral
\* (numerals of at most two decimals are the ones the model feeds it).
IsNumeric(t) ==
    /\ \A i \in 1..Len(WholePart(t)) : IsDigit(WholePart(t)[i])
    /\ \A i \in 1..Len(FracPart(t)) : IsDigit(FracPart(t)[i])
    /\ Len(WholePart(t)) + Len(FracPart(t)) > 0
    /\ Len(FracPart(t)) <= 2

\* float(text), in hundredths.
Float(t) ==
    100 * DigitsVal(WholePart(t))
    + (IF Len(FracPart(t)) = 0 THEN 0
       ELSE IF Len(FracPart(t)) = 1 THEN 10 * DigitsVal(FracPart(t))
       ELSE DigitsVal(FracPart(t)))

\* str(float): shortest decimal, always with one decimal at least.
StrFloat(h) ==
    IntDigits(h \div 100) \o <<".">> \o
    (IF h % 10 = 0 THEN <<DigitChars[((h % 100) \div 10) + 1]>>
     ELSE <<DigitChars[((h % 100) \div 10) + 1], DigitChars[(h % 10) + 1]>>)

\* s.replace('.', '_')
ReplaceDot(s) == [i \in 1..Len(s) |-> IF s[i] = "." THEN "_" ELSE s[i]]

\* Index where the extension of a path starts (its last dot, a leading dot
\* excepted), Len + 1 when it has none.
ExtStart(p) ==
    IF \E i \in 2..Len(p) : p[i] = "."
    THEN CHOOSE i \in 2..Len(p) : p[i] = "." /\ \A j \in (i + 1)..Len(p) : p[j] # "."
    ELSE Len(p) + 1

splitext(p) == [basename |-> SubSeq(p, 1, ExtStart(p) - 1),
                ext      |-> SubSeq(p, ExtStart(p), Len(p))]

\* utils.create_temp_filename(filepath, prefix=...)
create_temp_filename(filepath, prefix) == <<prefix>> \o filepath

(***************************************************************************)
(* StandardScenarios._make_scenarios and _prep_flooder_input.              *)
(***************************************************************************)
\* float(elev) of the custom loop raises ValueError on a non-numeric text.
MakeScenariosRaises(p) ==
    /\ Get(p, "elevation", None) # None
    /\ \E i \in 1..Len(p["elevation"]) : ~IsNumeric(p["elevation"][i])

\* _make_scenarios with the two loops of the standard branch exchanged.
_make_scenarios_slr_outer(p) ==
    LET elevations == Get(p, "elevation", None)
        nsurge == Len(SURGES)
    IN  IF elevations = None
        THEN [k \in 1..(Len(SEALEVELRISE) * nsurge) |->
                [elev       |-> None,
                 surge_name |-> SURGES[((k - 1) % nsurge) + 1].name,
                 surge_elev |-> Num(SURGES[((k - 1) % nsurge) + 1].elev),
                 slr        |-> Num(SEALEVELRISE[((k - 1) \div nsurge) + 1])]]
        ELSE [k \in 1..Len(elevations) |->
                [elev       |-> Num(Float(elevations[k])),
                 surge_name |-> None,
                 surge_elev |-> None,
                 slr        |-> None]]

\* _make_scenarios that walks the custom elevations from the last to the first.
_make_scenarios_reversed(p) ==
    LET elevations == Get(p, "elevation", None)
        nslr == Len(SEALEVELRISE)
    IN  IF elevations = None
        THEN [k \in 1..(Len(SURGES) * nslr) |->
                [elev       |-> None,
                 surge_name |-> SURGES[((k - 1) \div nslr) + 1].name,
                 surge_elev |-> Num(SURGES[((k - 1) \div nslr) + 1].elev),
                 slr        |-> Num(SEALEVELRISE[((k - 1) % nslr) + 1])]]
        ELSE [k \in 1..Len(elevations) |->
                [elev       |-> Num(Float(elevations[Len(elevations) + 1 - k])),
                 surge_name |-> None,
                 surge_elev |-> None,
                 slr        |-> None]]

\* The elevation parameter, when given, is the list of texts the host's
\* multi-value parameter is split into (a scalar is wrapped into a list
\* of one by the source, which is the same list here).
_make_scenarios(p) ==
    LET elevations == Get(p, "elevation", None)
        nslr == Len(SEALEVELRISE)
    IN  IF elevations = None
        THEN [k \in 1..(Len(SURGES) * nslr) |->
                [elev       |-> None,
                 surge_name |-> SURGES[((k - 1) \div nslr) + 1].name,
                 surge_elev |-> Num(SURGES[((k - 1) \div nslr) + 1].elev),
                 slr        |-> Num(SEALEVELRISE[((k - 1) % nslr) + 1])]]
        ELSE [k \in 1..Len(elevations) |->
                [elev       |-> Num(Float(elevations[k])),
                 surge_name |-> None,
                 surge_elev |-> None,
                 slr        |-> None]]

\* _prep_flooder_input that forgets the sea level rise of a standard scenario.
_prep_flooder_input_no_slr(elev, surge, slr, flood_output) ==
    LET elevation == IF elev = None THEN SurgeElev(surge) ELSE Val(elev)
    IN  IF flood_output = None
        THEN [raised |-> TRUE, elevation |-> elevation, temp_fname |-> None]
        ELSE [raised     |-> FALSE,
              elevation  |-> elevation,
              temp_fname |-> splitext(flood_output).basename
                             \o ReplaceDot(StrFloat(elevation))
                             \o splitext(flood_output).ext]

\* _prep_flooder_input that lets a named surge take precedence over elev.
_prep_flooder_input_surge_first(elev, surge, slr, flood_output) ==
    LET elevation == IF elev = None \/ (surge # None /\ slr # None)
                     THEN 100 * Val(slr) + SurgeElev(surge)
                     ELSE Val(elev)
    IN  IF flood_output = None
        THEN [raised |-> TRUE, elevation |-> elevation, temp_fname |-> None]
        ELSE [raised     |-> FALSE,
              elevation  |-> elevation,
              temp_fname |-> splitext(flood_output).basename
                             \o ReplaceDot(StrFloat(elevation))
                             \o splitext(flood_output).ext]

_prep_flooder_input(elev, surge, slr, flood_output) ==
    LET elevation == IF elev = None
                     THEN 100 * Val(slr) + SurgeElev(surge)
                     ELSE Val(elev)
    IN  IF flood_output = None
        THEN [raised |-> TRUE, elevation |-> elevation, temp_fname |-> None]
        ELSE [raised     |-> FALSE,
              elevation  |-> elevation,
              temp_fname |-> splitext(flood_output).basename
                             \o ReplaceDot(StrFloat(elevation))
                             \o splitext(flood_output).ext]

(***************************************************************************)
(* The collaborators of the engine.  A world w is the set of artifacts     *)
(* that exist, the calls made so far and whether an exception is           *)
(* propagating; a call made while one propagates does nothing.             *)
(***************************************************************************)
World(fs, lg) == [files |-> fs, log |-> lg, raised |-> FALSE]

\* tidegates.flood_area(..., elevation_feet, filename): writes the flood
\* layer at filename (the overwrite policy is on), or fails.
flood_area(elevation_feet, filename, ok, w) ==
    IF w.raised THEN w
    ELSE [files  |-> IF ok THEN w.files \cup {filename} ELSE w.files,
          log    |-> Append(w.log, [op |-> "flood_area", elevation_feet |-> elevation_feet,
                                    filename |-> filename, ok |-> ok]),
          raised |-> ~ok]

\* tidegates.assess_impact(...): writes one output per source supplied.
assess_impact(floods_path, wetlands_path, wetlands_output, buildings_path, buildings_output, ok, w) ==
    IF w.raised THEN w
    ELSE [files  |-> IF ok
                     THEN w.files
                          \cup (IF wetlands_path # None THEN {wetlands_output} ELSE {})
                          \cup (IF buildings_path # None THEN {buildings_output} ELSE {})
                     ELSE w.files,
          log    |-> Append(w.log, [op |-> "assess_impact", floods_path |-> floods_path,
                                    wetlands_path |-> wetlands_path,
                                    buildings_path |-> buildings_path, ok |-> ok]),
          raised |-> ~ok]

\* utils.add_field_with_value(table, field_name, field_value)
add_field_with_value(table, field_name, field_value, w) ==
    IF w.raised THEN w
    ELSE [w EXCEPT !.log = Append(@, [op |-> "add_field", table |-> table,
                                      field_name |-> field_name,
                                      field_value |-> field_value])]

\* utils.concat_results(destination, *input_files)
concat_results(destination, input_files, ok, w) ==
    IF w.raised THEN w
    ELSE [files  |-> IF ok THEN w.files \cup {destination} ELSE w.files,
          log    |-> Append(w.log, [op |-> "concat_results", destination |-> destination,
                                    input_files |-> input_files, ok |-> ok]),
          raised |-> ~ok]

\* utils.join_results_to_baseline(destination, results, baseline)
join_results_to_baseline(destination, results_file, baseline_file, ok, w) ==
    IF w.raised THEN w
    ELSE [files  |-> IF ok THEN w.files \cup {destination} ELSE w.files,
          log    |-> Append(w.log, [op |-> "join_results_to_baseline",
                                    destination |-> destination,
                                    results_file |-> results_file,
                                    baseline_file |-> baseline_file, ok |-> ok]),
          raised |-> ~ok]

\* utils.cleanup_temp_results(*results)
cleanup_temp_results(results, w) ==
    IF w.raised THEN w
    ELSE [files  |-> w.files \ Range(results),
          log    |-> Append(w.log, [op |-> "cleanup_temp_results", results |-> results]),
          raised |-> FALSE]

(***************************************************************************)
(* StandardScenarios._add_scenario_columns, analyze and finish_results.    *)
(***************************************************************************)
\* _add_scenario_columns that tests slr for truth: no sea level rise, no tag.
_add_scenario_columns_truthy_slr(layer, elev, surge, slr, w) ==
    LET w1 == IF elev # None
              THEN add_field_with_value(layer, "flood_elev", elev, w) ELSE w
        w2 == IF surge # None
              THEN add_field_with_value(layer, "surge", surge, w1) ELSE w1
    IN  IF slr # None /\ slr # Num(0)
        THEN add_field_with_value(layer, "slr", slr, w2) ELSE w2

_add_scenario_columns(layer, elev, surge, slr, w) ==
    LET w1 == IF elev # None
              THEN add_field_with_value(layer, "flood_elev", elev, w) ELSE w
        w2 == IF surge # None
              THEN add_field_with_value(layer, "surge", surge, w1) ELSE w1
    IN  IF slr # None
        THEN add_field_with_value(layer, "slr", slr, w2) ELSE w2

\* outcome: "ok", "flood_fails" or "impact_fails" (what the two engines do).
analyze(elev, surge, slr, p, outcome, w) ==
    LET prep == _prep_flooder_input(elev, surge, slr, p["flood_output"])
        floods_path == prep.temp_fname
        wetlands == Get(p, "wetlands", None)
        buildings == Get(p, "buildings", None)
        w1 == flood_area(prep.elevation, floods_path, outcome # "flood_fails", w)
        w2 == _add_scenario_columns(floods_path, Num(prep.elevation), surge, slr, w1)
        wl_path == create_temp_filename(floods_path, "_wetlands_")
        bldg_path == create_temp_filename(floods_path, "_buildings_")
        w3 == assess_impact(floods_path, wetlands, wl_path, buildings, bldg_path,
                            outcome # "impact_fails", w2)
        wtlndlyr == IF wetlands # None THEN wl_path ELSE None
        blgdlyr == IF buildings # None THEN bldg_path ELSE None
        w4 == IF wtlndlyr # None
              THEN _add_scenario_columns(wtlndlyr, Num(prep.elevation), surge, slr, w3)
              ELSE w3
    IN  IF prep.raised
        THEN [w |-> [w EXCEPT !.raised = TRUE],
              fldlyr |-> None, wtlndlyr |-> None, blgdlyr |-> None]
        ELSE [w |-> w4, fldlyr |-> floods_path, wtlndlyr |-> wtlndlyr, blgdlyr |-> blgdlyr]

\* finish_results with the cleanup nested under the outputname test.
finish_results_guarded_cleanup(outputname, results, sourcename, cleanup, outcome, w) ==
    LET w0 == [w EXCEPT !.log = Append(@, [op |-> "finish_results",
                                           outputname |-> outputname,
                                           results |-> results,
                                           sourcename |-> sourcename,
                                           cleanup |-> cleanup])]
        tmp_fname == create_temp_filename(outputname, "_temp_")
        merged == IF sourcename # None
                  THEN cleanup_temp_results(<<tmp_fname>>,
                         join_results_to_baseline(outputname, tmp_fname, sourcename,
                           outcome # "join_fails",
                           concat_results(tmp_fname, results,
                                          outcome # "concat_fails", w0)))
                  ELSE concat_results(outputname, results, outcome # "concat_fails", w0)
    IN  IF outputname # None
        THEN IF cleanup THEN cleanup_temp_results(results, merged) ELSE merged
        ELSE w0

\* finish_results that cleans up before it merges.
finish_results_cleanup_first(outputname, results, sourcename, cleanup, outcome, w) ==
    LET w0 == [w EXCEPT !.log = Append(@, [op |-> "finish_results",
                                           outputname |-> outputname,
                                           results |-> results,
                                           sourcename |-> sourcename,
                                           cleanup |-> cleanup])]
        w1 == IF cleanup THEN cleanup_temp_results(results, w0) ELSE w0
        tmp_fname == create_temp_filename(outputname, "_temp_")
    IN  IF outputname # None
        THEN IF sourcename # None
             THEN cleanup_temp_results(<<tmp_fname>>,
                    join_results_to_baseline(outputname, tmp_fname, sourcename,
                      outcome # "join_fails",
                      concat_results(tmp_fname, results, outcome # "concat_fails", w1)))
             ELSE concat_results(outputname, results, outcome # "concat_fails", w1)
        ELSE w1

\* finish_results that leaves the temporary concatenation behind.
finish_results_keeps_temp(outputname, results, sourcename, cleanup, outcome, w) ==
    LET w0 == [w EXCEPT !.log = Append(@, [op |-> "finish_results",
                                           outputname |-> outputname,
                                           results |-> results,
                                           sourcename |-> sourcename,
                                           cleanup |-> cleanup])]
        tmp_fname == create_temp_filename(outputname, "_temp_")
        merged == IF outputname # None
                  THEN IF sourcename # None
                       THEN join_results_to_baseline(outputname, tmp_fname, sourcename,
                              outcome # "join_fails",
                              concat_results(tmp_fname, results,
                                             outcome # "concat_fails", w0))
                       ELSE concat_results(outputname, results, outcome # "concat_fails", w0)
                  ELSE w0
    IN  IF cleanup THEN cleanup_temp_results(results, merged) ELSE merged

\* outcome: "ok", "concat_fails" or "join_fails".
finish_results(outputname, results, sourcename, cleanup, outcome, w) ==
    LET w0 == [w EXCEPT !.log = Append(@, [op |-> "finish_results",
                                           outputname |-> outputname,
                                           results |-> results,
                                           sourcename |-> sourcename,
                                           cleanup |-> cleanup])]
        tmp_fname == create_temp_filename(outputname, "_temp_")
        merged == IF outputname # None
                  THEN IF sourcename # None
                       THEN cleanup_temp_results(<<tmp_fname>>,
                              join_results_to_baseline(outputname, tmp_fname, sourcename,
                                outcome # "join_fails",
                                concat_results(tmp_fname, results,
                                               outcome # "concat_fails", w0)))
                       ELSE concat_results(outputname, results, outcome # "concat_fails", w0)
                  ELSE w0
    IN  IF cleanup THEN cleanup_temp_results(results, merged) ELSE merged

\* The outcomes a finish_results call can have: a merge fails only if made.
Outcomes(outputname, sourcename) ==
    {"ok"} \cup (IF outputname # None THEN {"concat_fails"} ELSE {})
           \cup (IF outputname # None /\ sourcename # None THEN {"join_fails"} ELSE {})

(***************************************************************************)
(* utils.WorkSpace and utils.OverwriteState, and the with statement of     *)
(* main_execute that enters and leaves both.                               *)
(***************************************************************************)
WorkSpace_enter(path, e) == [e EXCEPT !.workspace = path]

WorkSpace_exit(sv, e) == [e EXCEPT !.workspace = sv.workspace]

OverwriteState_enter(state, e) == [e EXCEPT !.overwriteOutput = state]

OverwriteState_exit(sv, e) == [e EXCEPT !.overwriteOutput = sv.overwriteOutput]

EnterScope(p, e) == OverwriteState_enter(TRUE, WorkSpace_enter(p["workspace"], e))

ExitScope(sv, e) == WorkSpace_exit(sv, OverwriteState_exit(sv, e))

(***************************************************************************)
(* The configurations of a run.                                            *)
(***************************************************************************)
\* Stands for a key the params dictionary does not have.
Missing == <<"<missing>">>

With(d, key, v) == IF v = Missing THEN d ELSE d @@ (key :> v)

RequiredParams ==
    [workspace |-> <<"W">>, dem |-> <<"D">>, polygons |-> <<"P">>, ID_column |-> <<"ZoneID">>]

\* Texts of custom elevations: 3.5 twice, 5.25 and one that is no number.
ElevTexts == { <<"3", ".", "5">>, <<"3", ".", "5", "0">>, <<"5", ".", "2", "5">>, <<"x">> }

ElevLists == UNION {[1..n -> ElevTexts] : n \in 1..MaxElevs}

ParamSets ==
    { With(With(With(With(With(With(RequiredParams,
        "flood_output", fo), "wetlands", wl), "wetland_output", wlo),
        "buildings", b), "building_output", bo), "elevation", el) :
        fo \in {None, <<"floods", ".", "shp">>},
        wl \in {None, <<"wetlands", ".", "shp">>},
        wlo \in {Missing, None, <<"wl_out", ".", "shp">>},
        b \in {None, <<"buildings", ".", "shp">>},
        bo \in {Missing, None, <<"bldg_out", ".", "shp">>},
        el \in {Missing} \cup ElevLists }

\* The layers that exist before a run.
SourceFiles(p) ==
    {p["dem"], p["polygons"]}
    \cup (IF p["wetlands"] # None THEN {p["wetlands"]} ELSE {})
    \cup (IF p["buildings"] # None THEN {p["buildings"]} ELSE {})

NoCall == [outputname |-> None, results |-> <<>>, sourcename |-> None, cleanup |-> FALSE]

Init ==
    /\ pc = "start"
    /\ params \in ParamSets
    /\ prior \in {[workspace |-> <<"home">>, overwriteOutput |-> o] : o \in BOOLEAN}
    /\ env = prior
    /\ saved = prior
    /\ scenarios = <<>>
    /\ idx = 1
    /\ all_floods = <<>>
    /\ all_wetlands = <<>>
    /\ all_buildings = <<>>
    /\ files = SourceFiles(params)
    /\ log = <<>>
    /\ call = NoCall

(***************************************************************************)
(* main_execute, one action per step.                                      *)
(***************************************************************************)
wetlands == Get(params, "wetlands", None)

buildings == Get(params, "buildings", None)

\* An exception ends the run with the scope still held.
PropagateLeak(w) ==
    /\ pc' = "failed"
    /\ files' = w.files
    /\ log' = w.log
    /\ UNCHANGED <<params, prior, env, saved, scenarios, idx,
                   all_floods, all_wetlands, all_buildings, call>>

\* An exception leaves the with block: the scope is exited, the run is over.
Propagate(w) ==
    /\ pc' = "failed"
    /\ env' = ExitScope(saved, env)
    /\ files' = w.files
    /\ log' = w.log
    /\ UNCHANGED <<params, prior, saved, scenarios, idx,
                   all_floods, all_wetlands, all_buildings, call>>

Enter ==
    /\ pc = "start"
    /\ saved' = env
    /\ env' = EnterScope(params, env)
    /\ pc' = "scoped"
    /\ UNCHANGED <<params, prior, scenarios, idx,
                   all_floods, all_wetlands, all_buildings, files, log, call>>

MakeScenarios ==
    /\ pc = "scoped"
    /\ ~MakeScenariosRaises(params)
    /\ scenarios' = _make_scenarios(params)
    /\ idx' = 1
    /\ pc' = "loop"
    /\ UNCHANGED <<params, prior, env, saved,
                   all_floods, all_wetlands, all_buildings, files, log, call>>

MakeScenariosFails ==
    /\ pc = "scoped"
    /\ MakeScenariosRaises(params)
    /\ Propagate(World(files, log))

Analyzed(outcome) ==
    analyze(scenarios[idx].elev, scenarios[idx].surge_name, scenarios[idx].slr,
            params, outcome, World(files, log))

InLoop == pc = "loop" /\ idx <= Len(scenarios)

AnalyzeReturns ==
    /\ InLoop
    /\ params["flood_output"] # None
    /\ LET r == Analyzed("ok")
       IN  /\ all_floods' = Append(all_floods, r.fldlyr)
           /\ all_wetlands' = IF wetlands # None
                              THEN Append(all_wetlands, r.wtlndlyr) ELSE all_wetlands
           /\ all_buildings' = IF buildings # None
                               THEN Append(all_buildings, r.blgdlyr) ELSE all_buildings
           /\ files' = r.w.files
           /\ log' = r.w.log
    /\ idx' = idx + 1
    /\ UNCHANGED <<pc, params, prior, env, saved, scenarios, call>>

AnalyzePrepRaises ==
    /\ InLoop
    /\ params["flood_output"] = None
    /\ Propagate(Analyzed("ok").w)

AnalyzeFloodFails ==
    /\ InLoop
    /\ params["flood_output"] # None
    /\ Propagate(Analyzed("flood_fails").w)

AnalyzeImpactFails ==
    /\ InLoop
    /\ params["flood_output"] # None
    /\ Propagate(Analyzed("impact_fails").w)

AfterWetlands == IF buildings # None THEN "buildings" ELSE "exit"

\* main_execute that goes from the floods straight on to the buildings.
AfterFloodsSkipsWetlands == IF buildings # None THEN "buildings" ELSE "exit"

AfterFloods == IF wetlands # None THEN "wetlands" ELSE AfterWetlands

wtld_output ==
    Get(params, "wetland_output", create_temp_filename(params["wetlands"], "output_"))

bldg_output ==
    Get(params, "building_output", create_temp_filename(params["buildings"], "output_"))

\* One finish_results call of main_execute (cleanup is left at its default).
Finish(outputname, results, sourcename, outcome, nextpc) ==
    LET w == finish_results(outputname, results, sourcename, TRUE, outcome,
                            World(files, log))
    IN  IF w.raised
        THEN Propagate(w)
        ELSE /\ pc' = nextpc
             /\ files' = w.files
             /\ log' = w.log
             /\ UNCHANGED <<params, prior, env, saved, scenarios, idx,
                            all_floods, all_wetlands, all_buildings, call>>

LoopOver == pc = "loop" /\ idx > Len(scenarios)

FinishFloods ==
    /\ LoopOver
    /\ Finish(params["flood_output"], all_floods, None, "ok", AfterFloods)

FinishFloodsFails ==
    /\ LoopOver
    /\ \E outcome \in Outcomes(params["flood_output"], None) \ {"ok"} :
           Finish(params["flood_output"], all_floods, None, outcome, AfterFloods)

FinishWetlands ==
    /\ pc = "wetlands"
    /\ Finish(wtld_output, all_wetlands, params["wetlands"], "ok", AfterWetlands)

FinishWetlandsFails ==
    /\ pc = "wetlands"
    /\ \E outcome \in Outcomes(wtld_output, params["wetlands"]) \ {"ok"} :
           Finish(wtld_output, all_wetlands, params["wetlands"], outcome, AfterWetlands)

FinishBuildings ==
    /\ pc = "buildings"
    /\ Finish(bldg_output, all_buildings, params["buildings"], "ok", "exit")

FinishBuildingsFails ==
    /\ pc = "buildings"
    /\ \E outcome \in Outcomes(bldg_output, params["buildings"]) \ {"ok"} :
           Finish(bldg_output, all_buildings, params["buildings"], outcome, "exit")

\* The with block ends normally.
Exit ==
    /\ pc = "exit"
    /\ env' = ExitScope(saved, env)
    /\ pc' = "done"
    /\ UNCHANGED <<params, prior, saved, scenarios, idx,
                   all_floods, all_wetlands, all_buildings, files, log, call>>

Next ==
    \/ Enter
    \/ MakeScenarios
    \/ MakeScenariosFails
    \/ AnalyzeReturns
    \/ AnalyzePrepRaises
    \/ AnalyzeFloodFails
    \/ AnalyzeImpactFails
    \/ FinishFloods
    \/ FinishFloodsFails
    \/ FinishWetlands
    \/ FinishWetlandsFails
    \/ FinishBuildings
    \/ FinishBuildingsFails
    \/ Exit

Spec == Init /\ [][Next]_vars

(***************************************************************************)
(* finish_results called on its own, on every argument combination.        *)
(***************************************************************************)
ResultPaths == { <<"floods", "3", "_", "5", ".", "shp">>,
                 <<"floods", "5", "_", "2", "5", ".", "shp">>,
                 <<"_wetlands_", "floods", "3", "_", "5", ".", "shp">> }

ResultLists == UNION {[1..n -> ResultPaths] : n \in 0..MaxResults}

Calls ==
    [outputname : {None, <<"out", ".", "shp">>},
     results    : ResultLists,
     sourcename : {None, <<"src", ".", "shp">>},
     cleanup    : BOOLEAN]

\* The artifacts that exist before the call.
CallFiles(c) ==
    Range(c.results) \cup (IF c.sourcename # None THEN {c.sourcename} ELSE {})

InitFinish ==
    /\ pc = "call"
    /\ call \in Calls
    /\ files = CallFiles(call)
    /\ log = <<>>
    /\ params = RequiredParams
    /\ prior = [workspace |-> <<"home">>, overwriteOutput |-> FALSE]
    /\ env = prior
    /\ saved = prior
    /\ scenarios = <<>>
    /\ idx = 1
    /\ all_floods = <<>>
    /\ all_wetlands = <<>>
    /\ all_buildings = <<>>

CallFinish(outcome) ==
    LET w == finish_results(call.outputname, call.results, call.sourcename,
                            call.cleanup, outcome, World(files, log))
    IN  /\ pc = "call"
        /\ pc' = IF w.raised THEN "raised" ELSE "returned"
        /\ files' = w.files
        /\ log' = w.log
        /\ UNCHANGED <<params, prior, env, saved, scenarios, idx,
                       all_floods, all_wetlands, all_buildings, call>>

CallReturns == CallFinish("ok")

CallRaises ==
    \E outcome \in Outcomes(call.outputname, call.sourcename) \ {"ok"} : CallFinish(outcome)

NextFinish ==
    \/ CallReturns
    \/ CallRaises

SpecFinish == InitFinish /\ [][NextFinish]_vars

(***************************************************************************)
(* Properties.                                                             *)
(***************************************************************************)
\* Positions of the calls of one collaborator in the log.
Idx(op) == {i \in 1..Len(log) : log[i].op = op}

\* Positions of its calls that succeeded.
OkIdx(op) == {i \in Idx(op) : log[i].ok}

\* The k-th smallest member of a set of positions.
Nth(S, k) == CHOOSE i \in S : Cardinality({j \in S : j < i}) = k - 1

StandardMode == "elevation" \notin DOMAIN params

FloodsShp == <<"floods", ".", "shp">>

\* The temporary flood path of the k-th scenario of the run.
TempPathOf(k) ==
    _prep_flooder_input(scenarios[k].elev, scenarios[k].surge_name, scenarios[k].slr,
                        params["flood_output"]).temp_fname

\* C1: in a standard run, or a custom run whose elevations are pairwise
\* distinct, no two scenarios of the run get the same temporary flood path
\* (nor, therefore, the same wetlands or buildings temporary path).
C1_TempPathsDistinct ==
    ( /\ pc = "loop"
      /\ params["flood_output"] # None
      /\ \/ StandardMode
         \/ \A i, j \in 1..Len(scenarios) : i # j => scenarios[i].elev # scenarios[j].elev )
    => \A i, j \in 1..Len(scenarios) :
          i < j =>
            /\ TempPathOf(i) # TempPathOf(j)
            /\ create_temp_filename(TempPathOf(i), "_wetlands_")
                 # create_temp_filename(TempPathOf(j), "_wetlands_")
            /\ create_temp_filename(TempPathOf(i), "_buildings_")
                 # create_temp_filename(TempPathOf(j), "_buildings_")

\* C2: a flood-extent computation never writes to a temporary path that an
\* earlier scenario of the same run has written: the run fails before.
C2_NoSilentOverwrite ==
    \A i, j \in OkIdx("flood_area") : i < j => log[i].filename # log[j].filename

PerScenarioArtifacts ==
    Range(all_floods) \cup Range(all_wetlands) \cup Range(all_buildings)

\* The finish_results call that a later call of the log belongs to.
LastFinishBefore(i) ==
    CHOOSE f \in Idx("finish_results") :
        f < i /\ \A g \in Idx("finish_results") : g < i => g <= f

\* C4: a per-scenario artifact is deleted only after a concatenate that took
\* it as input has succeeded (and the join too, when a baseline is given)
\* in the same aggregation step; with no merge nothing is deleted.
C4_DeleteOnlyAfterMerge ==
    \A d \in Idx("cleanup_temp_results") :
        \A p \in Range(log[d].results) \cap PerScenarioArtifacts :
            LET f == LastFinishBefore(d)
            IN  \E c \in (f + 1)..(d - 1) :
                    /\ log[c].op = "concat_results"
                    /\ log[c].ok
                    /\ p \in Range(log[c].input_files)
                    /\ log[f].sourcename # None =>
                          \E j \in (c + 1)..(d - 1) :
                              log[j].op = "join_results_to_baseline" /\ log[j].ok

\* C5: when flood_area fails on the k-th scenario the run is over: no later
\* scenario ran, the scope is released, no aggregation call was made and
\* exactly k - 1 temporary flood artifacts exist.
C5_FloodFailureAborts ==
    ( /\ pc = "failed"
      /\ Len(log) > 0
      /\ log[Len(log)].op = "flood_area"
      /\ ~log[Len(log)].ok )
    => /\ Cardinality(Idx("flood_area")) = idx
       /\ env = prior
       /\ Idx("finish_results") \cup Idx("concat_results")
            \cup Idx("join_results_to_baseline") \cup Idx("cleanup_temp_results") = {}
       /\ Cardinality({f \in files : \E i \in OkIdx("flood_area") : log[i].filename = f})
            = idx - 1

\* The surge x slr cross-product in generator order, in hundredths of a foot.
ExpectedElevations ==
    [k \in 1..28 |-> <<400, 800, 960, 1050>>[((k - 1) \div 7) + 1] + 100 * ((k - 1) % 7)]

\* A finished standard run without wetlands and buildings into floods.shp.
C6_Run ==
    /\ pc = "done"
    /\ StandardMode
    /\ wetlands = None
    /\ buildings = None
    /\ params["flood_output"] = FloodsShp

\* 28 flood computations in cross-product order, one scenario at a time,
\* then one concatenate of their 28 outputs into floods.shp.
C6_FloodsThenConcat ==
    LET F == Idx("flood_area")
        A == Idx("assess_impact")
        C == Idx("concat_results")
    IN  /\ Cardinality(F) = 28
        /\ Cardinality(A) = 28
        /\ \A k \in 1..28 :
              /\ log[Nth(F, k)].ok
              /\ log[Nth(F, k)].elevation_feet = ExpectedElevations[k]
              /\ Nth(F, k) < Nth(A, k)
              /\ k < 28 => Nth(A, k) < Nth(F, k + 1)
        /\ Cardinality(C) = 1
        /\ \A c \in C :
              /\ \A i \in F \cup A : i < c
              /\ log[c].destination = FloodsShp
              /\ Len(log[c].input_files) = 28
              /\ \A k \in 1..28 : log[c].input_files[k] = log[Nth(F, k)].filename

\* C6 as stated: ... followed by 28 delete calls, one per temporary layer.
C6_TwentyEightDeleteCalls ==
    C6_Run
    => /\ C6_FloodsThenConcat
       /\ Cardinality(Idx("cleanup_temp_results")) = 28
       /\ \A d \in Idx("cleanup_temp_results") :
             /\ \A c \in Idx("concat_results") : c < d
             /\ Len(log[d].results) = 1

\* C6 amended: ... followed by one delete call that is passed the same 28
\* entries the concatenate was passed.
C6_OneDeleteCall ==
    C6_Run
    => /\ C6_FloodsThenConcat
       /\ Cardinality(Idx("cleanup_temp_results")) = 1
       /\ \A d \in Idx("cleanup_temp_results") :
             \A c \in Idx("concat_results") :
                 c < d /\ log[d].results = log[c].input_files

C6_Witness ==
    /\ C6_Run
    /\ Cardinality(Idx("flood_area")) = 28
    /\ Idx("cleanup_temp_results") # {}
    /\ Range(all_floods) \cap files = {}

\* C7: the workspace and the overwrite flag are set from before the first
\* scenario until the run ends, and are back at their prior values in every
\* final state, whether the run completed or failed anywhere.
C7_ScopeHeldThenReleased ==
    /\ pc \in {"done", "failed"} => env = prior
    /\ pc \in {"scoped", "loop", "wetlands", "buildings", "exit"}
          => env = [workspace |-> params["workspace"], overwriteOutput |-> TRUE]
    /\ pc = "start" => (log = <<>> /\ env = prior)

C7_Witness ==
    /\ pc = "failed"
    /\ \E j \in Idx("join_results_to_baseline") : ~log[j].ok
    /\ ~prior.overwriteOutput
    /\ env = prior

\* C8: with cleanup and an outputname, every result is deleted, by a delete
\* that follows the successful concatenate (and join, given a baseline);
\* when the merge fails, or cleanup is false, no result is deleted.
C8_CleanupAfterMerge ==
    /\ (pc = "returned" /\ call.cleanup /\ call.outputname # None)
       => /\ Range(call.results) \cap files = {}
          /\ \E d \in Idx("cleanup_temp_results") : log[d].results = call.results
          /\ \A d \in Idx("cleanup_temp_results") :
                log[d].results = call.results =>
                   \E c \in OkIdx("concat_results") :
                      /\ c < d
                      /\ log[c].input_files = call.results
                      /\ call.sourcename # None =>
                            \E j \in OkIdx("join_results_to_baseline") :
                               /\ c < j
                               /\ j < d
                               /\ log[j].destination = call.outputname
                               /\ log[j].results_file = log[c].destination
                               /\ log[j].baseline_file = call.sourcename
    /\ (pc = "raised" \/ (pc = "returned" /\ ~call.cleanup))
       => /\ Range(call.results) \subseteq files
          /\ \A d \in Idx("cleanup_temp_results") :
                Range(log[d].results) \cap Range(call.results) = {}

C8_Witness ==
    /\ pc = "returned"
    /\ call.cleanup
    /\ call.outputname # None
    /\ call.sourcename # None
    /\ Len(call.results) >= 2
    /\ Range(call.results) \cap files = {}

\* C9: when wetlands (buildings) are given and no wetland_output
\* (building_output) is, be it missing or None, the aggregation writes to the
\* path derived from the source with the output_ prefix.
C9_OutputDerivedFromSource ==
    \A f \in Idx("finish_results") :
        /\ ( /\ wetlands # None
             /\ log[f].sourcename = wetlands
             /\ Get(params, "wetland_output", None) = None )
           => log[f].outputname = create_temp_filename(wetlands, "output_")
        /\ ( /\ buildings # None
             /\ log[f].sourcename = buildings
             /\ Get(params, "building_output", None) = None )
           => log[f].outputname = create_temp_filename(buildings, "output_")

ExpectedSurges ==
    << <<<<"MHHW">>, 400>>, <<<<"10yr">>, 800>>, <<<<"50yr">>, 960>>, <<<<"100yr">>, 1050>> >>

\* C10: a standard run has exactly 28 scenarios, each without elev, the
\* surges MHHW, 10yr, 50yr, 100yr in that order as the outer loop and the
\* sea level rises 0..6 ascending as the inner one, each pair once.
C10_StandardScenarios ==
    (StandardMode /\ pc \notin {"start", "scoped", "call", "returned", "raised"})
    => /\ Len(scenarios) = 28
       /\ \A k \in 1..Len(scenarios) :
             /\ scenarios[k].elev = None
             /\ scenarios[k].surge_name = ExpectedSurges[((k - 1) \div 7) + 1][1]
             /\ scenarios[k].surge_elev = Num(ExpectedSurges[((k - 1) \div 7) + 1][2])
             /\ scenarios[k].slr = Num((k - 1) % 7)
       /\ \A n \in 1..4 : \A r \in 0..6 :
             Cardinality({k \in 1..Len(scenarios) :
                             /\ scenarios[k].surge_name = ExpectedSurges[n][1]
                             /\ scenarios[k].slr = Num(r)}) = 1

C10_Witness ==
    /\ StandardMode
    /\ pc = "loop"
    /\ idx = 1
    /\ Len(scenarios) = 28
    /\ scenarios[28].surge_name = <<"100yr">>
    /\ scenarios[28].slr = Num(6)


\* The elevation, in hundredths of a foot, that a numeric text denotes.
ExpectedElev(t) ==
    CASE t = <<"3", ".", "5">> -> 350
      [] t = <<"3", ".", "5", "0">> -> 350
      [] t = <<"5", ".", "2", "5">> -> 525

NumericTexts == { <<"3", ".", "5">>, <<"3", ".", "5", "0">>, <<"5", ".", "2", "5">> }

\* The run is past _make_scenarios.
ScenariosMade == pc \in {"loop", "wetlands", "buildings", "exit", "done", "failed"}

\* C11: a custom run has one scenario per input elevation, in input order,
\* with elev that elevation and surge_name, surge_elev and slr all None;
\* every scenario of any run is either custom or standard, never both.
C11_CustomScenarios ==
    /\ ( /\ ~StandardMode
         /\ ScenariosMade
         /\ \A i \in 1..Len(params["elevation"]) : params["elevation"][i] \in NumericTexts )
       => /\ Len(scenarios) = Len(params["elevation"])
          /\ \A k \in 1..Len(scenarios) :
                /\ scenarios[k].elev = Num(ExpectedElev(params["elevation"][k]))
                /\ scenarios[k].surge_name = None
                /\ scenarios[k].surge_elev = None
                /\ scenarios[k].slr = None
    /\ \A k \in 1..Len(scenarios) :
          \/ /\ scenarios[k].elev # None
             /\ scenarios[k].surge_name = None
             /\ scenarios[k].surge_elev = None
             /\ scenarios[k].slr = None
          \/ /\ scenarios[k].elev = None
             /\ scenarios[k].surge_name # None
             /\ scenarios[k].surge_elev # None
             /\ scenarios[k].slr # None

C11_Witness ==
    /\ ~StandardMode
    /\ pc = "loop"
    /\ params["elevation"] = << <<"5", ".", "2", "5">>, <<"3", ".", "5", "0">> >>
    /\ Len(scenarios) = 2
    /\ scenarios[1].elev = Num(525)
    /\ scenarios[2].elev = Num(350)


(***************************************************************************)
(* _prep_flooder_input called on its own: on any explicit elevation with   *)
(* any surge and sea level rise, on any named surge with any sea level     *)
(* rise, and on the descriptors of _make_scenarios as main_execute passes  *)
(* them (surge_elev is the descriptor's, None when there is no descriptor).*)
(***************************************************************************)
SurgeNames == {SURGES[i].name : i \in 1..Len(SURGES)}

SlrValues == {Num(SEALEVELRISE[i]) : i \in 1..Len(SEALEVELRISE)}

OutputChoices == {None, <<"floods", ".", "shp">>}

ArbitraryPrepCalls ==
    [elev : {Num(350), Num(525)}, surge : {None} \cup SurgeNames,
     slr : {None} \cup SlrValues, surge_elev : {None}, flood_output : OutputChoices]
    \cup
    [elev : {None}, surge : SurgeNames, slr : SlrValues,
     surge_elev : {None}, flood_output : OutputChoices]

DescriptorsOf(p) == Range(_make_scenarios(p))

DescriptorPrepCalls ==
    { [elev |-> d.elev, surge |-> d.surge_name, slr |-> d.slr,
       surge_elev |-> d.surge_elev, flood_output |-> fo] :
        d \in DescriptorsOf(RequiredParams)
              \cup DescriptorsOf(With(RequiredParams, "elevation",
                                      << <<"3", ".", "5">>, <<"5", ".", "2", "5">> >>)),
        fo \in OutputChoices }

InitPrep ==
    /\ pc = "prep"
    /\ call \in ArbitraryPrepCalls \cup DescriptorPrepCalls
    /\ files = {}
    /\ log = <<>>
    /\ params = RequiredParams
    /\ prior = [workspace |-> <<"home">>, overwriteOutput |-> FALSE]
    /\ env = prior
    /\ saved = prior
    /\ scenarios = <<>>
    /\ idx = 1
    /\ all_floods = <<>>
    /\ all_wetlands = <<>>
    /\ all_buildings = <<>>

Prepped == _prep_flooder_input(call.elev, call.surge, call.slr, call.flood_output)

PrepReturns ==
    /\ pc = "prep"
    /\ ~Prepped.raised
    /\ pc' = "prepped"
    /\ log' = <<[op |-> "_prep_flooder_input", elevation |-> Prepped.elevation,
                 temp_fname |-> Prepped.temp_fname]>>
    /\ UNCHANGED <<params, prior, env, saved, scenarios, idx,
                   all_floods, all_wetlands, all_buildings, files, call>>

PrepRaises ==
    /\ pc = "prep"
    /\ Prepped.raised
    /\ pc' = "prep_raised"
    /\ UNCHANGED <<params, prior, env, saved, scenarios, idx,
                   all_floods, all_wetlands, all_buildings, files, log, call>>

NextPrep ==
    \/ PrepReturns
    \/ PrepRaises

SpecPrep == InitPrep /\ [][NextPrep]_vars

\* The table elevation of a named surge, in hundredths of a foot.
ExpectedSurgeElev(name) ==
    ExpectedSurges[CHOOSE n \in 1..4 : ExpectedSurges[n][1] = name][2]

\* C12: the elevation returned is the explicit elev whenever there is one,
\* whatever surge and slr are; otherwise slr plus the table elevation of the
\* surge (100yr with slr 2 gives 12.5), which for a descriptor of
\* _make_scenarios is slr plus the descriptor's own surge_elev.
C12_FinalElevation ==
    pc = "prepped"
    => /\ call.elev # None => log[1].elevation = Val(call.elev)
       /\ call.elev = None =>
             log[1].elevation = 100 * Val(call.slr) + ExpectedSurgeElev(call.surge)
       /\ (call.elev = None /\ call.surge = <<"100yr">> /\ call.slr = Num(2))
             => log[1].elevation = 1250
       /\ (call.elev = None /\ call.surge_elev # None)
             => log[1].elevation = 100 * Val(call.slr) + Val(call.surge_elev)

C12_Witness ==
    /\ pc = "prepped"
    /\ call.elev = Num(525)
    /\ call.surge = <<"100yr">>
    /\ call.slr = Num(2)
    /\ log[1].elevation = 525


\* The temporary flood path the k-th flood-extent computation was given.
FloodFileOf(k) == log[Nth(Idx("flood_area"), k)].filename

\* The aggregation calls a complete run makes, in order: floods without a
\* baseline, then wetlands and buildings against their source layers when
\* these were supplied, each with one entry per scenario in scenario order.
ExpectedFinishes ==
    << [sourcename |-> None,
        results    |-> [k \in 1..Len(scenarios) |-> FloodFileOf(k)]] >>
    \o (IF wetlands # None
        THEN << [sourcename |-> wetlands,
                 results    |-> [k \in 1..Len(scenarios) |->
                                    <<"_wetlands_">> \o FloodFileOf(k)]] >>
        ELSE << >>)
    \o (IF buildings # None
        THEN << [sourcename |-> buildings,
                 results    |-> [k \in 1..Len(scenarios) |->
                                    <<"_buildings_">> \o FloodFileOf(k)]] >>
        ELSE << >>)

\* C13: finish_results is called only once every scenario has finished, and
\* the calls made are, in order, those of ExpectedFinishes; a run that
\* completes has made all of them.
C13_AggregationCalls ==
    LET F == Idx("finish_results")
    IN  /\ F # {} =>
              /\ Cardinality(OkIdx("assess_impact")) = Len(scenarios)
              /\ Cardinality(Idx("flood_area")) = Len(scenarios)
              /\ \A f \in F : \A i \in Idx("flood_area") \cup Idx("assess_impact") : i < f
              /\ Cardinality(F) <= Len(ExpectedFinishes)
              /\ \A n \in 1..Cardinality(F) :
                    /\ log[Nth(F, n)].sourcename = ExpectedFinishes[n].sourcename
                    /\ log[Nth(F, n)].results = ExpectedFinishes[n].results
        /\ pc = "done" => Cardinality(F) = Len(ExpectedFinishes)
        /\ pc \in {"start", "scoped", "loop"} => F = {}

C13_Witness ==
    /\ pc = "done"
    /\ wetlands # None
    /\ buildings # None
    /\ Len(scenarios) = 28
    /\ Cardinality(Idx("finish_results")) = 3
    /\ log[Nth(Idx("finish_results"), 2)].sourcename = wetlands
    /\ Len(log[Nth(Idx("finish_results"), 3)].results) = 28


\* A path ends with another: it is derived from it by a prefix.
EndsWith(path, name) ==
    /\ Len(path) > Len(name)
    /\ SubSeq(path, Len(path) - Len(name) + 1, Len(path)) = name

\* C14: with an outputname and a baseline, finish_results concatenates the
\* results into a temporary path derived from outputname, then joins that
\* concatenation against the baseline into outputname, then deletes the
\* temporary concatenation; without a baseline it concatenates straight into
\* outputname and makes no temporary.  The baseline is never written or
\* deleted.
C14_ConcatJoinDelete ==
    LET C == Idx("concat_results")
        J == Idx("join_results_to_baseline")
        D == Idx("cleanup_temp_results")
    IN  /\ (pc = "returned" /\ call.outputname # None /\ call.sourcename # None)
           => /\ Cardinality(C) = 1
              /\ Cardinality(J) = 1
              /\ \A c \in C : \A j \in J :
                    /\ c < j
                    /\ log[c].input_files = call.results
                    /\ EndsWith(log[c].destination, call.outputname)
                    /\ log[c].destination \notin Range(call.results)
                    /\ log[j].destination = call.outputname
                    /\ log[j].results_file = log[c].destination
                    /\ log[j].baseline_file = call.sourcename
                    /\ \E d \in D : j < d /\ log[d].results = <<log[c].destination>>
                    /\ log[c].destination \notin files
              /\ call.outputname \in files
        /\ (pc = "returned" /\ call.outputname # None /\ call.sourcename = None)
           => /\ Cardinality(C) = 1
              /\ J = {}
              /\ \A c \in C : /\ log[c].destination = call.outputname
                              /\ log[c].input_files = call.results
              /\ \A d \in D : log[d].results = call.results
              /\ files \subseteq CallFiles(call) \cup {call.outputname}
              /\ call.outputname \in files
        /\ (pc \in {"returned", "raised"} /\ call.sourcename # None)
           => /\ call.sourcename \in files
              /\ \A c \in C : log[c].destination # call.sourcename
              /\ \A j \in J : log[j].destination # call.sourcename
              /\ \A d \in D : call.sourcename \notin Range(log[d].results)

C14_Witness ==
    /\ pc = "returned"
    /\ call.outputname # None
    /\ call.sourcename # None
    /\ call.results # <<>>
    /\ Idx("join_results_to_baseline") # {}
    /\ call.outputname \in files
    /\ call.sourcename \in files


\* The number of the scenario whose flood-extent computation is call i.
ScenarioOf(i) == Cardinality({j \in Idx("flood_area") : j <= i})

\* The first call after position i that is one of the given kinds, the
\* position after the log's end when there is none.
NextOf(i, ops) ==
    IF \E j \in (i + 1)..Len(log) : log[j].op \in ops
    THEN CHOOSE j \in (i + 1)..Len(log) :
            log[j].op \in ops /\ \A h \in (i + 1)..(j - 1) : log[h].op \notin ops
    ELSE Len(log) + 1

\* The values the calls at positions from..to set the given field to.
TagValues(from, to, field) ==
    {log[j].field_value : j \in {h \in from..to : log[h].field_name = field}}

\* The tags scenario k is to carry, its flood computed at elevation e.
ExpectedTag(k, e, field) ==
    CASE field = "flood_elev" -> {Num(e)}
      [] field = "surge" -> IF scenarios[k].elev = None
                            THEN {scenarios[k].surge_name} ELSE {}
      [] field = "slr" -> IF scenarios[k].elev = None THEN {scenarios[k].slr} ELSE {}

\* The calls at positions from..to tag the table, once per field, with the
\* tags of scenario k and nothing else.
TaggedAs(from, to, table, k, e) ==
    /\ \A j \in from..to :
          /\ log[j].op = "add_field"
          /\ log[j].table = table
          /\ log[j].field_name \in {"flood_elev", "surge", "slr"}
    /\ \A field \in {"flood_elev", "surge", "slr"} :
          /\ TagValues(from, to, field) = ExpectedTag(k, e, field)
          /\ Cardinality({j \in from..to : log[j].field_name = field})
               = Cardinality(ExpectedTag(k, e, field))

\* C15: between a scenario's flood-extent computation and its impact
\* assessment the flood layer is tagged with flood_elev, and with surge and
\* slr exactly when the scenario is a standard one; after the assessment the
\* wetlands result, if there is one, gets the same tags and values; the
\* buildings result is never tagged.
C15_ScenarioTags ==
    /\ \A i \in OkIdx("flood_area") :
          LET a == NextOf(i, {"assess_impact"})
              e == NextOf(a, {"flood_area", "finish_results"})
              k == ScenarioOf(i)
          IN  /\ a <= Len(log)
              /\ a > i + 1
              /\ TaggedAs(i + 1, a - 1, log[i].filename, k, log[i].elevation_feet)
              /\ log[a].ok =>
                    IF wetlands # None
                    THEN /\ e > a + 1
                         /\ TaggedAs(a + 1, e - 1, <<"_wetlands_">> \o log[i].filename,
                                     k, log[i].elevation_feet)
                    ELSE e = a + 1
    /\ \A j \in Idx("add_field") : log[j].table[1] # "_buildings_"

C15_Witness ==
    /\ StandardMode
    /\ buildings # None
    /\ <<"_buildings_", "floods", "4", "_", "0", ".", "shp">> \in files
    /\ \E j \in Idx("add_field") :
          /\ log[j].table = <<"_wetlands_", "floods", "4", "_", "0", ".", "shp">>
          /\ log[j].field_name = "slr"
          /\ log[j].field_value = Num(0)
    /\ \E j \in Idx("add_field") :
          /\ log[j].table = <<"floods", "4", "_", "0", ".", "shp">>
          /\ log[j].field_name = "surge"
          /\ log[j].field_value = <<"MHHW">>

====
